---------------------------- MODULE Spec2Model ----------------------------
(***************************************************************************)
(* Model of the FRA validation service                                     *)
(* (backend/app/services/validation.py) and of the three router handlers   *)
(* that call it (backend/app/routers/api.py).                              *)
(*                                                                         *)
(* Representation.                                                         *)
(*  - A Python str is a sequence of one-character strings, so that         *)
(*    lower(), startswith() and the substring test `in` are computed       *)
(*    character by character.                                              *)
(*  - Python's None is the one-element sequence <<"None">>: its element    *)
(*    is not a character, so it equals no str.                             *)
(*  - A float read from the file is kept in hundredths (3.99 is 399); the  *)
(*    cells drawn carry at most two decimals, for which the comparisons    *)
(*    with 4 and 0.5 agree with the float comparisons.                     *)
(*  - Of the 36 columns of the file the model keeps the eleven that        *)
(*    validate_claim, find_similar_records and get_dataset_stats read.     *)
(***************************************************************************)
EXTENDS Integers, Sequences, FiniteSets, TLC

VARIABLES
    file,       \* the CSV file on disk: Absent, or the sequence of its rows
    dataset,    \* FRAValidationService._dataset
    is_loaded,  \* FRAValidationService._is_loaded
    pc,         \* "constructing", "ready", or "failed" (constructor raised)
    response    \* the answer of the handler that ran last, until it is sent

vars == <<file, dataset, is_loaded, pc, response>>

-----------------------------------------------------------------------------
(* Python values *)

None == <<"None">>

UpperLetters ==
    <<"A","B","C","D","E","F","G","H","I","J","K","L","M",
      "N","O","P","Q","R","S","T","U","V","W","X","Y","Z">>

LowerLetters ==
    <<"a","b","c","d","e","f","g","h","i","j","k","l","m",
      "n","o","p","q","r","s","t","u","v","w","x","y","z">>

Digits == <<"0","1","2","3","4","5","6","7","8","9">>

LowerChar(c) ==
    IF \E i \in DOMAIN UpperLetters : UpperLetters[i] = c
    THEN LowerLetters[CHOOSE i \in DOMAIN UpperLetters : UpperLetters[i] = c]
    ELSE c

\* str.lower()
Lower(s) == [i \in DOMAIN s |-> LowerChar(s[i])]

\* str(x): None prints as "None", a str is itself
Str(x) == IF x = None THEN <<"N","o","n","e">> ELSE x

\* a in b, for two str
IsSubstring(a, b) ==
    \E k \in 0..(Len(b) - Len(a)) : SubSeq(b, k + 1, k + Len(a)) = a

\* s.startswith(p)
StartsWith(s, p) == Len(s) >= Len(p) /\ SubSeq(s, 1, Len(p)) = p

\* truth value of an Optional[str]
Truthy(x) == x # None /\ x # <<>>

IsDigit(c) == \E i \in DOMAIN Digits : Digits[i] = c

DigitVal(c) == (CHOOSE i \in DOMAIN Digits : Digits[i] = c) - 1

RECURSIVE DigitsValue(_)
DigitsValue(s) ==
    IF s = <<>> THEN 0
    ELSE DigitsValue(SubSeq(s, 1, Len(s) - 1)) * 10 + DigitVal(s[Len(s)])

AllDigits(s) == \A i \in DOMAIN s : IsDigit(s[i])

HasSign(s) == s # <<>> /\ s[1] \in {"-", "+"}

Unsigned(s) == IF HasSign(s) THEN Tail(s) ELSE s

Signed(s, n) == IF HasSign(s) /\ s[1] = "-" THEN 0 - n ELSE n

Raise == [raised |-> TRUE]

Return(v) == [raised |-> FALSE, value |-> v]

\* int(s) for a str s: an optional sign and one or more digits, else
\* ValueError. (The cells drawn hold no blanks and no underscores, which
\* int() would also accept.)
PyInt(s) ==
    LET u == Unsigned(s)
    IN  IF u # <<>> /\ AllDigits(u) THEN Return(Signed(s, DigitsValue(u)))
        ELSE Raise

\* float(s) for a str s, in hundredths: an optional sign, digits, and an
\* optional point followed by digits; else ValueError. (The cells drawn hold
\* no blanks, exponents, "nan" or "inf", which float() would also accept.)
PyFloat(s) ==
    LET u     == Unsigned(s)
        dots  == {i \in DOMAIN u : u[i] = "."}
        p     == IF dots = {} THEN Len(u) + 1 ELSE CHOOSE i \in dots : TRUE
        whole == SubSeq(u, 1, p - 1)
        frac  == SubSeq(u, p + 1, Len(u))
        cents == IF Len(frac) = 0 THEN 0
                 ELSE IF Len(frac) = 1 THEN DigitsValue(frac) * 10
                 ELSE DigitsValue(SubSeq(frac, 1, 2))
    IN  IF /\ Cardinality(dots) <= 1
           /\ AllDigits(whole) /\ AllDigits(frac)
           /\ Len(whole) + Len(frac) > 0
        THEN Return(Signed(s, DigitsValue(whole) * 100 + cents))
        ELSE Raise

-----------------------------------------------------------------------------
(* _load_dataset *)

\* The columns the model keeps, in the order of the file's header.
Columns ==
    <<"aadhaar_id", "applicant_name", "age", "state", "district", "village",
      "land_area_requested_acres", "has_previous_claim",
      "years_in_forest_area", "application_status", "fraud_risk_score">>

\* row.get(col, "")
TextCell(row, col) == IF col \in DOMAIN row THEN row[col] ELSE <<>>

\* int(row.get(col, 0) or 0)
IntCell(row, col) ==
    IF col \notin DOMAIN row THEN Return(0)
    ELSE IF ~Truthy(row[col]) THEN Return(0)
    ELSE PyInt(row[col])

\* float(row.get(col, 0) or 0)
FloatCell(row, col) ==
    IF col \notin DOMAIN row THEN Return(0)
    ELSE IF ~Truthy(row[col]) THEN Return(0)
    ELSE PyFloat(row[col])

\* str(row.get(col, "")).lower() == "true"
BoolCell(row, col) == Lower(Str(TextCell(row, col))) = <<"t","r","u","e">>

\* The dict literal built for one row; a ValueError of any int() or float()
\* leaves the literal unbuilt.
LoadRow(row) ==
    LET age   == IntCell(row, "age")
        land  == FloatCell(row, "land_area_requested_acres")
        years == IntCell(row, "years_in_forest_area")
        fraud == FloatCell(row, "fraud_risk_score")
    IN  IF age.raised \/ land.raised \/ years.raised \/ fraud.raised
        THEN Raise
        ELSE Return(
            [aadhaar_id                |-> TextCell(row, "aadhaar_id"),
             applicant_name            |-> TextCell(row, "applicant_name"),
             age                       |-> age.value,
             state                     |-> TextCell(row, "state"),
             district                  |-> TextCell(row, "district"),
             village                   |-> TextCell(row, "village"),
             land_area_requested_acres |-> land.value,
             has_previous_claim        |-> BoolCell(row, "has_previous_claim"),
             years_in_forest_area      |-> years.value,
             application_status        |-> TextCell(row, "application_status"),
             fraud_risk_score          |-> fraud.value])

\* The value _load_dataset assigns to self._dataset, or the exception that
\* leaves the loop.
LoadDataset(f) ==
    IF ~f.exists THEN Return(<<>>)
    ELSE IF \E i \in DOMAIN f.rows : LoadRow(f.rows[i]).raised THEN Raise
    ELSE Return([i \in DOMAIN f.rows |-> LoadRow(f.rows[i]).value])

-----------------------------------------------------------------------------
(* validate_claim *)

Min(S) == CHOOSE x \in S : \A y \in S : x <= y

\* next((r for r in self._dataset if r.get("aadhaar_id") == aadhaar), None):
\* the position of the record found, 0 for None
IdentityMatch(ds, aadhaar) ==
    LET hits == {i \in DOMAIN ds : ds[i].aadhaar_id = aadhaar}
    IN  IF hits = {} THEN 0 ELSE Min(hits)

\* AttributeTest without the comparison of the village.
AttributeTestNoVillage(r, bn, st, dt, vg) ==
    IF r.applicant_name = None THEN "raise"
    ELSE IF Lower(r.applicant_name) # bn THEN "miss"
    ELSE IF r.state = None THEN "raise"
    ELSE IF Lower(r.state) # st THEN "miss"
    ELSE IF r.district = None THEN "raise"
    ELSE IF Lower(r.district) # dt THEN "miss"
    ELSE "hit"

\* The generator's condition on one record, `and` evaluated left to right:
\* .lower() of a None field raises AttributeError, a field that differs ends
\* the evaluation.
AttributeTest(r, bn, st, dt, vg) ==
    IF r.applicant_name = None THEN "raise"
    ELSE IF Lower(r.applicant_name) # bn THEN "miss"
    ELSE IF r.state = None THEN "raise"
    ELSE IF Lower(r.state) # st THEN "miss"
    ELSE IF r.district = None THEN "raise"
    ELSE IF Lower(r.district) # dt THEN "miss"
    ELSE IF r.village = None THEN "raise"
    ELSE IF Lower(r.village) # vg THEN "miss"
    ELSE "hit"

\* AttributeMatch that keeps the last record that matches, not the first.
AttributeMatchLast(ds, claim) ==
    LET bn    == Lower(claim.beneficiaryName)
        st    == Lower(claim.state)
        dt    == Lower(claim.district)
        vg    == Lower(claim.village)
        stops == {i \in DOMAIN ds : AttributeTest(ds[i], bn, st, dt, vg) # "miss"}
        last  == CHOOSE i \in stops : \A j \in stops : j <= i
    IN  IF stops = {} THEN Return(0)
        ELSE IF AttributeTest(ds[last], bn, st, dt, vg) = "raise" THEN Raise
        ELSE Return(last)

\* whose test raises.
AttributeMatch(ds, claim) ==
    LET bn    == Lower(claim.beneficiaryName)
        st    == Lower(claim.state)
        dt    == Lower(claim.district)
        vg    == Lower(claim.village)
        stops == {i \in DOMAIN ds : AttributeTest(ds[i], bn, st, dt, vg) # "miss"}
    IN  IF stops = {} THEN Return(0)
        ELSE IF AttributeTest(ds[Min(stops)], bn, st, dt, vg) = "raise" THEN Raise
        ELSE Return(Min(stops))

AgeEligible(dataset_age) == dataset_age >= 18

\* LandAreaEligible with 4 acres allowed.
LandAreaEligibleInclusive(dataset_land) == dataset_land <= 400

LandAreaEligible(dataset_land) == dataset_land < 400

GenerationEligible(years) == years >= 75

EligibilityErrors(m) ==
    (IF AgeEligible(m.age) THEN <<>>
     ELSE <<[kind |-> "age", actual |-> m.age]>>)
    \o
    (IF LandAreaEligible(m.land_area_requested_acres) THEN <<>>
     ELSE <<[kind |-> "land", actual |-> m.land_area_requested_acres]>>)
    \o
    (IF GenerationEligible(m.years_in_forest_area) THEN <<>>
     ELSE <<[kind |-> "years", actual |-> m.years_in_forest_area]>>)

HasPreviousClaimWarning(m) == m.has_previous_claim

RejectedWarning(m) ==
    StartsWith(Lower(Str(m.application_status)),
               <<"r","e","j","e","c","t","e","d">>)

\* FraudWarning from 0.5 on.
FraudWarningInclusive(m) == m.fraud_risk_score >= 50

FraudWarning(m) == m.fraud_risk_score > 50

Warnings(m) ==
    (IF HasPreviousClaimWarning(m) THEN <<[kind |-> "previous_claim"]>>
     ELSE <<>>)
    \o
    (IF RejectedWarning(m)
     THEN <<[kind |-> "rejected", status |-> m.application_status]>>
     ELSE <<>>)
    \o
    (IF FraudWarning(m)
     THEN <<[kind |-> "fraud", percent |-> m.fraud_risk_score]>>
     ELSE <<>>)

\* The result of the `if matched:` branch.
EvaluateMatched(m) ==
    LET checks == [ageEligible        |-> AgeEligible(m.age),
                   landAreaEligible   |->
                       LandAreaEligible(m.land_area_requested_acres),
                   generationEligible |->
                       GenerationEligible(m.years_in_forest_area)]
    IN  [isValid           |-> /\ checks.ageEligible
                               /\ checks.landAreaEligible
                               /\ checks.generationEligible,
         userFound         |-> TRUE,
         eligibilityChecks |-> checks,
         matchedRecord     |-> m,
         errors            |-> EligibilityErrors(m),
         warnings          |-> Warnings(m)]

\* The result of the `else:` branch: no "matchedRecord" key.
NotFoundResult ==
    [isValid           |-> FALSE,
     userFound         |-> FALSE,
     eligibilityChecks |-> [ageEligible        |-> FALSE,
                            landAreaEligible   |-> FALSE,
                            generationEligible |-> FALSE],
     errors            |-> <<[kind |-> "not_found"]>>,
     warnings          |-> <<>>]

\* MatchRecord with the two modes in the other order.
MatchRecordAttributeFirst(ds, claim) ==
    LET byAttr == AttributeMatch(ds, claim)
    IN  IF byAttr.raised \/ byAttr.value # 0 \/ ~Truthy(claim.aadhaarId)
        THEN byAttr
        ELSE Return(IdentityMatch(ds, claim.aadhaarId))

\* The position in ds of the record validate_claim matches (0 for none), or
\* the AttributeError of the attribute scan.
MatchRecord(ds, claim) ==
    LET byId == IF Truthy(claim.aadhaarId)
                THEN IdentityMatch(ds, claim.aadhaarId) ELSE 0
    IN  IF byId # 0 THEN Return(byId) ELSE AttributeMatch(ds, claim)

\* validate_claim: what it returns, with the position of the matched record
\* (the result holds the dataset's own record object), or that it raised.
ValidateClaim(ds, claim) ==
    LET m == MatchRecord(ds, claim)
    IN  IF m.raised THEN [raised |-> TRUE]
        ELSE IF m.value # 0
        THEN [raised |-> FALSE, matched |-> m.value,
              value |-> EvaluateMatched(ds[m.value])]
        ELSE [raised |-> FALSE, matched |-> 0, value |-> NotFoundResult]

-----------------------------------------------------------------------------
(* find_similar_records *)

SimilarityScore(r, name, st, dt, vg) ==
    LET rname == Lower(Str(r.applicant_name))
    IN  (IF IsSubstring(name, rname) \/ IsSubstring(rname, name) THEN 3 ELSE 0)
        + (IF Lower(Str(r.state)) = st THEN 2 ELSE 0)
        + (IF Lower(Str(r.district)) = dt THEN 2 ELSE 0)
        + (IF Lower(Str(r.village)) = vg THEN 1 ELSE 0)

\* IsSimilar with a score of 3 left out.
IsSimilarStrict(r, claim) ==
    SimilarityScore(r, Lower(claim.beneficiaryName), Lower(claim.state),
                    Lower(claim.district), Lower(claim.village)) > 3

\* if score >= 3: similar.append(r)
IsSimilar(r, claim) ==
    SimilarityScore(r, Lower(claim.beneficiaryName), Lower(claim.state),
                    Lower(claim.district), Lower(claim.village)) >= 3

\* similar[:5]
Truncate(similar) ==
    SubSeq(similar, 1, IF Len(similar) < 5 THEN Len(similar) ELSE 5)

\* The positions, in the order of the loop, of the records appended.
RECURSIVE SimilarPositions(_, _, _)
SimilarPositions(ds, claim, i) ==
    IF i > Len(ds) THEN <<>>
    ELSE (IF IsSimilar(ds[i], claim) THEN <<i>> ELSE <<>>)
         \o SimilarPositions(ds, claim, i + 1)

\* find_similar_records: the records returned and their positions in ds.
FindSimilarRecords(ds, claim) ==
    LET at == Truncate(SimilarPositions(ds, claim, 1))
    IN  [raised |-> FALSE, positions |-> at,
         value |-> [k \in DOMAIN at |-> ds[at[k]]]]

-----------------------------------------------------------------------------
(* get_dataset_stats *)

\* StatsEligible with 4 acres allowed.
StatsEligibleInclusive(r) ==
    /\ r.age >= 18
    /\ r.land_area_requested_acres <= 400
    /\ r.years_in_forest_area >= 75

StatsEligible(r) ==
    /\ r.age >= 18
    /\ r.land_area_requested_acres < 400
    /\ r.years_in_forest_area >= 75

GetDatasetStats(ds, loaded) ==
    IF ~loaded THEN [total |-> 0, eligibleCount |-> 0, byState |-> <<>>]
    ELSE LET states == {Str(ds[i].state) : i \in DOMAIN ds}
         IN  [total         |-> Len(ds),
              eligibleCount |->
                  Cardinality({i \in DOMAIN ds : StatsEligible(ds[i])}),
              byState       |->
                  [s \in states |->
                      Cardinality({i \in DOMAIN ds : Str(ds[i].state) = s})]]

-----------------------------------------------------------------------------
(* The service object and the handlers of routers/api.py.  The service    *)
(* methods hold no await, so each handler runs to its end on the event     *)
(* loop before another starts: one action each.                           *)

NoResponse == [op |-> "none"]

\* FRAValidationService.__init__ up to its call of _load_dataset
Constructed ==
    /\ dataset = <<>>
    /\ is_loaded = FALSE
    /\ pc = "constructing"
    /\ response = NoResponse

\* _load_dataset, called by __init__ as the module is imported: an exception
\* leaves _dataset and _is_loaded as __init__ set them and no service object
\* is bound.
LoadDatasetStep ==
    /\ pc = "constructing"
    /\ LET loaded == LoadDataset(file)
       IN  IF loaded.raised
           THEN /\ pc' = "failed"
                /\ UNCHANGED <<dataset, is_loaded>>
           ELSE /\ dataset' = loaded.value
                /\ is_loaded' = TRUE
                /\ pc' = "ready"
    /\ UNCHANGED <<file, response>>

\* POST /validate-claim
ValidateClaimCall(claims) ==
    /\ pc = "ready"
    /\ response = NoResponse
    /\ \E claim \in claims :
          response' = [op |-> "validate_claim", claim |-> claim,
                       out |-> ValidateClaim(dataset, claim)]
    /\ UNCHANGED <<file, dataset, is_loaded, pc>>

\* FindSimilarCall that moves the similar records to the front of the
\* dataset, as a sort in place would.
FindSimilarCallReordering(claims) ==
    /\ pc = "ready"
    /\ response = NoResponse
    /\ \E claim \in claims :
          /\ response' = [op |-> "find_similar_records", claim |-> claim,
                          out |-> FindSimilarRecords(dataset, claim)]
          /\ dataset' = SelectSeq(dataset, LAMBDA r : IsSimilar(r, claim))
                        \o SelectSeq(dataset, LAMBDA r : ~IsSimilar(r, claim))
    /\ UNCHANGED <<file, is_loaded, pc>>

\* POST /find-similar
FindSimilarCall(claims) ==
    /\ pc = "ready"
    /\ response = NoResponse
    /\ \E claim \in claims :
          response' = [op |-> "find_similar_records", claim |-> claim,
                       out |-> FindSimilarRecords(dataset, claim)]
    /\ UNCHANGED <<file, dataset, is_loaded, pc>>

\* GET /dataset-stats
DatasetStatsCall ==
    /\ pc = "ready"
    /\ response = NoResponse
    /\ response' = [op |-> "get_dataset_stats",
                    out |-> [raised |-> FALSE,
                             value |-> GetDatasetStats(dataset, is_loaded)]]
    /\ UNCHANGED <<file, dataset, is_loaded, pc>>

\* The handler returns: the body (or the error) goes to the client.
Respond ==
    /\ response # NoResponse
    /\ response' = NoResponse
    /\ UNCHANGED <<file, dataset, is_loaded, pc>>

-----------------------------------------------------------------------------
(* Inputs: cells, rows, files and claims *)

X1 == <<"X","1">>
X2 == <<"X","2">>
X3 == <<"X","3">>
Approved == <<"a","p","p","r","o","v","e","d">>
RejectedIncomplete == <<"R","e","j","e","c","t","e","d"," ","-"," ","x">>
RejectedUpper == <<"R","E","J","E","C","T","E","D">>
Unrejected == <<"u","n","r","e","j","e","c","t","e","d">>

Row(id, name, age, st, dt, vg, land, prev, years, status, fraud) ==
    [aadhaar_id                |-> id,
     applicant_name            |-> name,
     age                       |-> age,
     state                     |-> st,
     district                  |-> dt,
     village                   |-> vg,
     land_area_requested_acres |-> land,
     has_previous_claim        |-> prev,
     years_in_forest_area      |-> years,
     application_status        |-> status,
     fraud_risk_score          |-> fraud]

\* A row of the file with only its first k cells: csv.DictReader fills the
\* columns that are left with None.
ShortRow(row, k) ==
    [c \in DOMAIN row |->
        IF \E i \in 1..k : Columns[i] = c THEN row[c] ELSE None]

\* A row of a file whose header has no column col.
WithoutColumn(row, col) == [c \in DOMAIN row \ {col} |-> row[c]]

\* age 25, 2.0 acres, 80 years, no previous claim, approved, fraud risk 0.1
Person(id, name, st, dt, vg) ==
    Row(id, name, <<"2","5">>, st, dt, vg, <<"2",".","0">>,
        <<"f","a","l","s","e">>, <<"8","0">>, Approved, <<"0",".","1">>)

\* The files of at most n rows drawn from pool; the rows of one file have
\* the columns of its header.
RECURSIVE RowSeqs(_, _)
RowSeqs(pool, n) ==
    IF n = 0 THEN {<<>>}
    ELSE LET shorter == RowSeqs(pool, n - 1)
         IN  shorter \cup
             {Append(rows, r) : rows \in {x \in shorter : Len(x) = n - 1},
                                r \in pool}

Files(pool, n) ==
    {[exists |-> FALSE]} \cup
    {[exists |-> TRUE, rows |-> rows] :
        rows \in {x \in RowSeqs(pool, n) :
                    \A i, j \in DOMAIN x : DOMAIN x[i] = DOMAIN x[j]}}

Claim(id, name, st, dt, vg) ==
    [aadhaarId |-> id, beneficiaryName |-> name,
     state |-> st, district |-> dt, village |-> vg]

(* Matching and loading: records that share an id, names that differ by     *)
(* case only, empty cells, short rows, cells int() and float() reject, and  *)
(* a file without the village column.                                       *)

MaxRows == 2

MatchPool ==
    {Person(X1, <<"A","b">>, <<"S">>, <<"D">>, <<"V">>),
     Person(X2, <<"a","b">>, <<"S">>, <<"D">>, <<"V">>),
     Person(X1, <<"b">>, <<"T">>, <<"D">>, <<"V">>),
     Person(X2, <<"A","b">>, <<"S">>, <<"E">>, <<"V">>),
     Person(X2, <<"A","b">>, <<"S">>, <<"D">>, <<"W">>),
     Person(<<>>, <<>>, <<>>, <<>>, <<>>),
     ShortRow(Person(X1, <<"A","b">>, <<"S">>, <<"D">>, <<"V">>), 1),
     ShortRow(Person(X2, <<"A","b">>, <<"S">>, <<"D">>, <<"V">>), 3),
     [Person(X1, <<"A","b">>, <<"S">>, <<"D">>, <<"V">>)
        EXCEPT !.age = <<"a","b","c">>],
     [Person(X2, <<"a","b">>, <<"S">>, <<"D">>, <<"V">>)
        EXCEPT !.years_in_forest_area = <<"8","0",".","0">>],
     [Person(X2, <<"b">>, <<"S">>, <<"D">>, <<"V">>)
        EXCEPT !.land_area_requested_acres = <<"x">>],
     WithoutColumn(Person(X1, <<"A","b">>, <<"S">>, <<"D">>, <<"V">>),
                   "village")}

MatchClaims ==
    {Claim(id, name, st, dt, vg) :
        id \in {None, <<>>, X1, X2, X3},
        name \in {<<>>, <<"a","b">>, <<"b">>},
        st \in {<<>>, <<"s">>},
        dt \in {<<>>, <<"D">>},
        vg \in {<<>>, <<"V">>}}

Init ==
    /\ file \in Files(MatchPool, MaxRows)
    /\ Constructed

Next ==
    \/ LoadDatasetStep
    \/ ValidateClaimCall(MatchClaims)
    \/ FindSimilarCall(MatchClaims)
    \/ DatasetStatsCall
    \/ Respond

Spec == Init /\ [][Next]_vars

(* Eligibility, warnings and statistics: records on both sides of each     *)
(* threshold, alone and together, and each warning alone and together.     *)

MaxEligRows == 2

Subject(age, land, years, prev, status, fraud) ==
    Row(X1, <<"A","b">>, age, <<"S">>, <<"D">>, <<"V">>,
        land, prev, years, status, fraud)

EligPool ==
    {Subject(age, land, years, <<"f","a","l","s","e">>, Approved,
             <<"0",".","5">>) :
        age \in {<<"1","7">>, <<"1","8">>},
        land \in {<<"3",".","9","9">>, <<"4">>},
        years \in {<<"7","4">>, <<"7","5">>}}
    \cup
    {Subject(<<"1","8">>, <<"3",".","9","9">>, <<"7","5">>,
             prev, status, fraud) :
        prev \in {<<"T","r","u","e">>, <<"f","a","l","s","e">>},
        status \in {RejectedIncomplete, Unrejected},
        fraud \in {<<"0",".","5","1">>, <<"0",".","5">>}}
    \cup
    {Subject(<<"1","6">>, <<"5",".","0">>, <<"1","0">>,
             <<"t","r","u","e">>, RejectedUpper, <<"0",".","8","3">>),
     Subject(<<>>, <<>>, <<>>, <<>>, <<>>, <<>>),
     Row(X2, <<"b">>, <<"2","5">>, <<"T">>, <<"D">>, <<"V">>, <<"2",".","0">>,
         <<"f","a","l","s","e">>, <<"8","0">>, Approved, <<"0",".","1">>)}

EligClaims ==
    {Claim(id, name, <<"s">>, <<"d">>, <<"v">>) :
        id \in {None, X1, X2},
        name \in {<<"a","b">>, <<"B">>}}

InitElig ==
    /\ file \in Files(EligPool, MaxEligRows)
    /\ Constructed

NextElig ==
    \/ LoadDatasetStep
    \/ ValidateClaimCall(EligClaims)
    \/ FindSimilarCall(EligClaims)
    \/ DatasetStatsCall
    \/ Respond

SpecElig == InitElig /\ [][NextElig]_vars

(* Similarity: more records than find_similar_records returns, of          *)
(* different scores, and records that score too little.                    *)

MaxSimilarRows == 7

SimilarPool ==
    {Person(X1, <<"A","b">>, <<"S">>, <<"D">>, <<"V">>),
     Person(X2, <<"c","a","B","c">>, <<"T">>, <<"E">>, <<"W">>),
     ShortRow(Person(X2, <<"A","b">>, <<"S">>, <<"D">>, <<"V">>), 1)}

SimilarClaims ==
    {Claim(None, name, st, <<"d">>, <<"v">>) :
        name \in {<<>>, <<"a","b">>, <<"N","O">>},
        st \in {<<>>, <<"s">>}}

InitSimilar ==
    /\ file \in Files(SimilarPool, MaxSimilarRows)
    /\ Constructed

NextSimilar ==
    \/ LoadDatasetStep
    \/ ValidateClaimCall(SimilarClaims)
    \/ FindSimilarCall(SimilarClaims)
    \/ DatasetStatsCall
    \/ Respond

SpecSimilar == InitSimilar /\ [][NextSimilar]_vars

-----------------------------------------------------------------------------
(* Properties *)

Validated == response.op = "validate_claim"

Similar == response.op = "find_similar_records"

Stats == response.op = "get_dataset_stats"

\* r and the claim agree on name, state, district and village, letter for
\* letter.
SameLetters(r, claim) ==
    /\ r.applicant_name = claim.beneficiaryName
    /\ r.state = claim.state
    /\ r.district = claim.district
    /\ r.village = claim.village

\* r and the claim agree on name, state, district and village once both are
\* put in lower case.
SameFolded(r, claim) ==
    /\ Lower(r.applicant_name) = Lower(claim.beneficiaryName)
    /\ Lower(r.state) = Lower(claim.state)
    /\ Lower(r.district) = Lower(claim.district)
    /\ Lower(r.village) = Lower(claim.village)

WithId(id) == {i \in DOMAIN dataset : dataset[i].aadhaar_id = id}

\* C1: when the claim carries a national id and exactly one record of the
\* dataset has that id, validate_claim returns without raising, with
\* userFound true and that record as matchedRecord, whatever the claim's
\* name, state, district and village are.
C1_IdentityMatchIsAuthoritative ==
    (/\ Validated
     /\ Truthy(response.claim.aadhaarId)
     /\ Cardinality(WithId(response.claim.aadhaarId)) = 1)
    => /\ ~response.out.raised
       /\ response.out.value.userFound
       /\ "matchedRecord" \in DOMAIN response.out.value
       /\ \A i \in WithId(response.claim.aadhaarId) :
             /\ response.out.matched = i
             /\ response.out.value.matchedRecord = dataset[i]

\* C1 witness: the id of the claim is the id of exactly one record, and the
\* claim's name, state, district and village are those of another record.
C1_Witness ==
    /\ Validated
    /\ Truthy(response.claim.aadhaarId)
    /\ Cardinality(WithId(response.claim.aadhaarId)) = 1
    /\ Len(response.claim.beneficiaryName) > 0
    /\ \E j \in DOMAIN dataset :
          /\ j \notin WithId(response.claim.aadhaarId)
          /\ SameFolded(dataset[j], response.claim)
    /\ ~response.out.raised
    /\ response.out.matched \in WithId(response.claim.aadhaarId)

C3_ValidityIsTheThreeThresholds ==
    (Validated /\ ~response.out.raised)
    => LET v == response.out.value
       IN  /\ v.isValid <=> v.errors = <<>>
           /\ ~v.userFound => ~v.isValid
           /\ v.userFound =>
                LET m       == v.matchedRecord
                    ageOk   == m.age >= 18
                    landOk  == m.land_area_requested_acres < 400
                    yearsOk == m.years_in_forest_area >= 75
                IN  /\ v.eligibilityChecks.ageEligible = ageOk
                    /\ v.eligibilityChecks.landAreaEligible = landOk
                    /\ v.eligibilityChecks.generationEligible = yearsOk
                    /\ v.isValid = (ageOk /\ landOk /\ yearsOk)
                    /\ v.errors =
                         (IF ageOk THEN <<>>
                          ELSE <<[kind |-> "age", actual |-> m.age]>>)
                         \o (IF landOk THEN <<>>
                             ELSE <<[kind |-> "land", actual |->
                                       m.land_area_requested_acres]>>)
                         \o (IF yearsOk THEN <<>>
                             ELSE <<[kind |-> "years", actual |->
                                       m.years_in_forest_area]>>)

\* C3 witness: the matched record asks for exactly 4 acres and passes the
\* two other checks: one error, not valid.
C3_Witness ==
    /\ Validated
    /\ ~response.out.raised
    /\ response.out.value.userFound
    /\ response.out.value.matchedRecord.land_area_requested_acres = 400
    /\ response.out.value.matchedRecord.age = 18
    /\ response.out.value.matchedRecord.years_in_forest_area = 75
    /\ Len(response.out.value.errors) = 1
    /\ ~response.out.value.isValid

\* C4: whenever validate_claim matches no record (no record has the claim's
\* id, none equals its name, state, district and village in lower case; so
\* for every claim on an empty dataset) it returns a full result:
\* userFound = false, isValid = false, the three checks false, the single
\* error "not found", no warning and no matchedRecord key; and in every
\* result the matchedRecord key is present exactly when userFound is true.
C4_NotFoundIsAFullResult ==
    Validated
    => LET c  == response.claim
           no == /\ ~Truthy(c.aadhaarId) \/ WithId(c.aadhaarId) = {}
                 /\ \A i \in DOMAIN dataset : ~SameFolded(dataset[i], c)
       IN  /\ ~response.out.raised =>
                (("matchedRecord" \in DOMAIN response.out.value)
                   <=> response.out.value.userFound)
           /\ no =>
                /\ ~response.out.raised
                /\ response.out.value.userFound = FALSE
                /\ response.out.value.isValid = FALSE
                /\ response.out.value.eligibilityChecks =
                     [ageEligible |-> FALSE, landAreaEligible |-> FALSE,
                      generationEligible |-> FALSE]
                /\ response.out.value.errors = <<[kind |-> "not_found"]>>
                /\ response.out.value.warnings = <<>>
                /\ "matchedRecord" \notin DOMAIN response.out.value

\* The score the similarity rule gives record r for a claim: 3 for a name
\* that contains or is contained in the claim's, 2 for the state, 2 for the
\* district, 1 for the village, all in lower case.
RuleScore(r, claim) ==
    LET a == Lower(claim.beneficiaryName)
        b == Lower(Str(r.applicant_name))
    IN  (IF IsSubstring(a, b) \/ IsSubstring(b, a) THEN 3 ELSE 0)
        + (IF Lower(Str(r.state)) = Lower(claim.state) THEN 2 ELSE 0)
        + (IF Lower(Str(r.district)) = Lower(claim.district) THEN 2 ELSE 0)
        + (IF Lower(Str(r.village)) = Lower(claim.village) THEN 1 ELSE 0)

Qualifying(claim) ==
    {i \in DOMAIN dataset : RuleScore(dataset[i], claim) >= 3}

\* C5: find_similar_records returns the first records of the dataset, at
\* most 5 and in dataset order, among those the rule scores 3 or more: none
\* that scores less, none skipped for a later one, never reordered; a claim
\* with an empty name qualifies every record.
C5_SimilarAreTheFirstFiveQualifying ==
    Similar
    => LET at == response.out.positions
           q  == Qualifying(response.claim)
       IN  /\ ~response.out.raised
           /\ Len(at) = (IF Cardinality(q) < 5 THEN Cardinality(q) ELSE 5)
           /\ Len(response.out.value) = Len(at)
           /\ \A k \in DOMAIN at :
                 /\ at[k] \in q
                 /\ response.out.value[k] = dataset[at[k]]
                 /\ \A j \in DOMAIN at : j < k => at[j] < at[k]
                 /\ \A i \in q : i < at[k] => \E j \in 1..(k - 1) : at[j] = i
           /\ response.claim.beneficiaryName = <<>> => q = DOMAIN dataset

\* C5 witness: more than 5 records qualify, a record that does not qualify
\* stands before one that is returned, and a returned record scores less
\* than one returned after it.
C5_Witness ==
    /\ Similar
    /\ Cardinality(Qualifying(response.claim)) > 5
    /\ Len(response.out.value) = 5
    /\ \E i \in DOMAIN dataset :
          /\ i \notin Qualifying(response.claim)
          /\ i < response.out.positions[5]
    /\ \E j, k \in 1..5 :
          /\ j < k
          /\ RuleScore(response.out.value[j], response.claim)
               < RuleScore(response.out.value[k], response.claim)

\* C6: for a matched record the warnings are one per condition that holds,
\* in the order previous claim, status beginning with "rejected" in any
\* letter case, fraud risk above 0.5, each checked whatever the others and
\* the eligibility are; isValid and the errors are those of the same record
\* with none of the three conditions.
C6_WarningsAreIndependentOfValidity ==
    (Validated /\ ~response.out.raised /\ response.out.value.userFound)
    => LET v     == response.out.value
           m     == v.matchedRecord
           prev  == m.has_previous_claim = TRUE
           rej   == StartsWith(Lower(Str(m.application_status)),
                               <<"r","e","j","e","c","t","e","d">>)
           fraud == m.fraud_risk_score > 50
           quiet == EvaluateMatched(
                        [m EXCEPT !.has_previous_claim = FALSE,
                                  !.application_status = <<>>,
                                  !.fraud_risk_score = 0])
       IN  /\ v.warnings =
                (IF prev THEN <<[kind |-> "previous_claim"]>> ELSE <<>>)
                \o (IF rej
                    THEN <<[kind |-> "rejected",
                            status |-> m.application_status]>>
                    ELSE <<>>)
                \o (IF fraud
                    THEN <<[kind |-> "fraud",
                            percent |-> m.fraud_risk_score]>>
                    ELSE <<>>)
           /\ v.isValid = quiet.isValid
           /\ v.errors = quiet.errors
           /\ quiet.warnings = <<>>

\* C6 witness: a record that passes the three checks and meets the three
\* conditions: valid, no error, three warnings.
C6_Witness ==
    /\ Validated
    /\ ~response.out.raised
    /\ response.out.value.userFound
    /\ response.out.value.isValid
    /\ response.out.value.errors = <<>>
    /\ Len(response.out.value.warnings) = 3

\* C7: get_dataset_stats returns as total the number of records loaded and
\* as eligibleCount the number of records with age >= 18, land < 4 acres and
\* years >= 75, which are the records validate_claim finds valid when it
\* matches them; eligibleCount <= total; the empty dataset gives total 0,
\* eligibleCount 0 and an empty byState.
C7_StatsCountTheEligibleRecords ==
    Stats
    => LET v == response.out.value
       IN  /\ ~response.out.raised
           /\ v.total = Len(dataset)
           /\ v.eligibleCount =
                Cardinality({i \in DOMAIN dataset :
                               /\ dataset[i].age >= 18
                               /\ dataset[i].land_area_requested_acres < 400
                               /\ dataset[i].years_in_forest_area >= 75})
           /\ v.eligibleCount =
                Cardinality({i \in DOMAIN dataset :
                               EvaluateMatched(dataset[i]).isValid})
           /\ v.eligibleCount <= v.total
           /\ dataset = <<>> =>
                v = [total |-> 0, eligibleCount |-> 0, byState |-> <<>>]

\* C7 witness: two records, one eligible and one that asks for exactly
\* 4 acres.
C7_Witness ==
    /\ Stats
    /\ response.out.value.total = 2
    /\ response.out.value.eligibleCount = 1
    /\ \E i \in DOMAIN dataset :
          /\ dataset[i].land_area_requested_acres = 400
          /\ dataset[i].age >= 18
          /\ dataset[i].years_in_forest_area >= 75

\* C8: validate_claim and find_similar_records return a result, and never
\* raise, for every dataset and every claim whose national id is absent or
\* empty or whose name, state, district or village is empty.
C8_HandlersNeverRaise ==
    (Validated \/ Similar) => ~response.out.raised

NumericColumns ==
    {"age", "land_area_requested_acres", "years_in_forest_area",
     "fraud_risk_score"}

\* C9: the load never aborts on the content of a row: a file of N rows
\* gives N records in the order of the file, with 0 for every numeric cell
\* that is missing or empty, whatever the other cells hold; an absent file
\* gives the empty dataset.
C9_LoadNeverAborts ==
    pc # "constructing"
    => /\ pc = "ready"
       /\ is_loaded
       /\ IF ~file.exists THEN dataset = <<>>
          ELSE /\ Len(dataset) = Len(file.rows)
               /\ \A i \in DOMAIN file.rows :
                     /\ dataset[i].aadhaar_id
                          = TextCell(file.rows[i], "aadhaar_id")
                     /\ \A col \in NumericColumns :
                           (\/ col \notin DOMAIN file.rows[i]
                            \/ ~Truthy(file.rows[i][col]))
                           => dataset[i][col] = 0

\* C10: once loaded, the dataset stays what the load made of the file,
\* through every sequence of validate_claim, find_similar_records and
\* get_dataset_stats, and every call returns what it returns on the
\* dataset as loaded.
C10_DatasetIsReadOnly ==
    pc = "ready"
    => LET loaded == LoadDataset(file).value
       IN  /\ dataset = loaded
           /\ is_loaded
           /\ Validated =>
                response.out = ValidateClaim(loaded, response.claim)
           /\ Similar =>
                response.out = FindSimilarRecords(loaded, response.claim)
           /\ Stats =>
                response.out.value = GetDatasetStats(loaded, TRUE)

\* C10 witness: a call has run on a dataset of two different records, some
\* of them similar to the claim and some not.
C10_Witness ==
    /\ Similar
    /\ Len(dataset) = 2
    /\ dataset[1] # dataset[2]
    /\ Len(response.out.value) = 1
    /\ response.out.positions = <<2>>

=============================================================================
